---- MODULE Spec2Model ----
(***************************************************************************)
(* A model of the CHIP-8 interpreter of src/src/chip8.rs: the machine      *)
(* state of struct Chip8, load_rom, and emulate_op with every instruction  *)
(* it dispatches, op_disp_clear and op_draw.  The rendering collaborator   *)
(* (trait Screen) is a recorder of the calls made on it.                   *)
(***************************************************************************)
EXTENDS Integers, Sequences, FiniteSets, TLC

\* ------------------------------------------------------------ constants
MEMORY_START == 512
MEMORY_SIZE == 4096
SCREEN_WIDTH == 64
SCREEN_HEIGHT == 32
STACK_MEMORY_END == 3840
SCREEN_MEMORY_START == 3840

\* Width of the types of the source: u8, u16.
U8 == 256
U16 == 65536

\* ------------------------------------------------------------ bounds
\* Most instructions one run of the drive loop executes.
MaxSteps == 50
\* Tallest sprite the input programs draw (the n of Dxyn).
MaxHeight == 2
\* Most lines of input one run of the debugger reads.
MaxLines == 4

\* ------------------------------------------------------------ bit helpers
Bit(a, k) == (a \div (2 ^ k)) % 2

\* The bitwise operators of u8, bit by bit.
BitOr(a, b) ==
    LET T(k) == (IF Bit(a, k) + Bit(b, k) > 0 THEN 1 ELSE 0) * (2 ^ k)
    IN  T(0) + T(1) + T(2) + T(3) + T(4) + T(5) + T(6) + T(7)
BitAnd(a, b) ==
    LET T(k) == (Bit(a, k) * Bit(b, k)) * (2 ^ k)
    IN  T(0) + T(1) + T(2) + T(3) + T(4) + T(5) + T(6) + T(7)
BitXor(a, b) ==
    LET T(k) == ((Bit(a, k) + Bit(b, k)) % 2) * (2 ^ k)
    IN  T(0) + T(1) + T(2) + T(3) + T(4) + T(5) + T(6) + T(7)

\* ------------------------------------------------------------ Opcode
\* An opcode is the pair <<byte 0, byte 1>>.
high_nib(byte) == byte \div 16
low_nib(byte) == byte % 16
x(opcode) == low_nib(opcode[1])
y(opcode) == high_nib(opcode[2])
n(opcode) == low_nib(opcode[2])
nnn(opcode) == low_nib(opcode[1]) * 256 + opcode[2]

\* ------------------------------------------------------------ rand
\* A u64 is the set of the positions of its set bits, bit 0 the least
\* significant.
Shl64(w, k) == {b + k : b \in {c \in w : c + k <= 63}}
Shr64(w, k) == {b - k : b \in {c \in w : c >= k}}
Xor64(p, q) == (p \ q) \cup (q \ p)
\* rand with its second shift to the left.
rand_second_shift_left(seed) ==
    LET r1 == Xor64(seed, Shl64(seed, 13))
        r2 == Xor64(r1, Shl64(r1, 7))
    IN  Xor64(r2, Shl64(r2, 17))
\* rnd ^= rnd << 13; rnd ^= rnd >> 7; rnd ^= rnd << 17
rand(seed) ==
    LET r1 == Xor64(seed, Shl64(seed, 13))
        r2 == Xor64(r1, Shr64(r1, 7))
    IN  Xor64(r2, Shl64(r2, 17))
\* `as u8` of a u64.
LowByte(w) ==
    LET T(b) == IF b \in w THEN 2 ^ b ELSE 0
    IN  T(0) + T(1) + T(2) + T(3) + T(4) + T(5) + T(6) + T(7)
\* The u64 of a natural number below 2^31 (the seconds of the clock).
ToU64(k) == {b \in 0 .. 30 : Bit(k, b) = 1}

\* ------------------------------------------------------------ memory
\* An array of u8 (memory: [u8; MEMORY_SIZE], v: [u8; 16]) is the function
\* of its non-zero bytes: a byte that is absent is 0.  Indexing of memory is
\* bounds checked where it is used; a register index is a nibble.
ZeroMemory == <<>>
rd(mem, a) == IF a \in DOMAIN mem THEN mem[a] ELSE 0
wr(mem, a, byte) ==
    IF byte = 0
    THEN [k \in DOMAIN mem \ {a} |-> mem[k]]
    ELSE [k \in DOMAIN mem \cup {a} |-> IF k = a THEN byte ELSE mem[k]]

\* ------------------------------------------------------------ state
VARIABLES
    v,            \* the 16 data registers
    i,            \* the address register
    sp,           \* the stack pointer
    pc,           \* the program counter
    memory,       \* the RAM
    used_memory,  \* the length of the loaded rom
    seed,         \* the state of the random number generator
    screen,       \* the calls made on the Screen during the last instruction
    status,       \* "new", "running", "exited" (exit(0)) or "panicked"
    steps,        \* the instructions executed so far
    last,         \* the machine before the last instruction, and its opcode
    last2,        \* the same, one instruction earlier
    stored,       \* the machine before the last store block that ran, and
                  \* the memory after it
    calls,        \* the calls not yet returned from: their pc and sp
    returns_ahead,\* a Return ran with no Call left to return from
    db,           \* where debugger is: "off", "prompt", "run" or "quit"
    last_cmd,     \* debugger's last_cmd
    eprinted,     \* what the last line read made debugger write to stderr
    nlines,       \* the lines debugger has read so far
    heard,        \* the last line read, trimmed, and the run before it
    last_valid    \* the last of the lines read that was a command

dbvars == <<db, last_cmd, eprinted, nlines, heard, last_valid>>
vars == <<v, i, sp, pc, memory, used_memory, seed, screen, status, steps,
          last, last2, stored, calls, returns_ahead, dbvars>>

\* The machine as one record: what emulate_op reads and writes.
Machine ==
    [v |-> v, i |-> i, sp |-> sp, pc |-> pc, memory |-> memory,
     seed |-> seed, screen |-> screen, status |-> status]

\* A panic that is swallowed: the machine goes on.
Panic_as_noop(m) == m
\* unimplemented!(), unreachable!(), unwrap of an error, index out of bounds.
Panic(m) == [m EXCEPT !.status = "panicked"]
Exit(m) == [m EXCEPT !.status = "exited"]

\* An arithmetic result that does not fit its type: a build with overflow
\* checks panics, a build without them wraps.
Overflow(m, checked, wrapped) == IF checked THEN Panic(m) ELSE wrapped

\* ------------------------------------------------------------ emulate_op
inc_pc(m) == [m EXCEPT !.pc = @ + 2]

\* 00E0
op_disp_clear(m) == [m EXCEPT !.screen = @ \o <<<<"clear">>, <<"present">>>>]

\* 00EE: the two reads of memory are bounds checked.
op_ret(m) ==
    IF m.sp + 1 >= MEMORY_SIZE
    THEN Panic(m)
    ELSE [m EXCEPT !.pc = ((rd(m.memory, m.sp) * 256) % U16)
                              + rd(m.memory, m.sp + 1),
                   !.sp = m.sp + 2]

\* 1nnn with no test for a jump to itself.
op_jump_no_halt(m, opcode, stdin_ok) == [m EXCEPT !.pc = nnn(opcode)]

\* 1nnn: a jump to itself reads one byte of standard input and exits the
\* process; the unwrap of a read that failed (end of input) panics.
op_jump(m, opcode, stdin_ok) ==
    IF nnn(opcode) = m.pc
    THEN IF stdin_ok THEN Exit(m) ELSE Panic(m)
    ELSE [m EXCEPT !.pc = nnn(opcode)]

\* 2nnn with the return address written before sp is decremented.
op_call_post_decrement(m, opcode) ==
    LET s == m.sp - 2
        hi == ((m.pc + 2) \div 256) % U8
        lo == (m.pc + 2) % U8
    IN  IF m.sp < 2 \/ m.sp + 1 >= MEMORY_SIZE THEN Panic(m)
        ELSE [m EXCEPT !.sp = s, !.memory = wr(wr(@, m.sp, hi), m.sp + 1, lo),
                       !.pc = nnn(opcode)]

\* 2nnn: sp is decremented first; each of the two writes is bounds checked.
\* (sp < 2 wraps or panics at the subtraction; wrapped, the write panics.)
op_call(m, opcode) ==
    LET s == m.sp - 2
        hi == ((m.pc + 2) \div 256) % U8
        lo == (m.pc + 2) % U8
    IN  IF m.sp < 2 THEN Panic(m)
        ELSE IF s >= MEMORY_SIZE THEN Panic([m EXCEPT !.sp = s])
        ELSE IF s + 1 >= MEMORY_SIZE
             THEN Panic([m EXCEPT !.sp = s, !.memory = wr(@, s, hi)])
        ELSE [m EXCEPT !.sp = s, !.memory = wr(wr(@, s, hi), s + 1, lo),
                       !.pc = nnn(opcode)]

\* 3xnn, 4xnn, 5xy_
op_skip_eq_imm(m, opcode) ==
    IF rd(m.v, x(opcode)) = opcode[2] THEN inc_pc(m) ELSE m
\* 4xnn with the test of 3xnn.
op_skip_ne_imm_as_eq(m, opcode) ==
    IF rd(m.v, x(opcode)) = opcode[2] THEN inc_pc(m) ELSE m
op_skip_ne_imm(m, opcode) ==
    IF rd(m.v, x(opcode)) # opcode[2] THEN inc_pc(m) ELSE m
op_skip_eq_reg(m, opcode) ==
    IF rd(m.v, x(opcode)) = rd(m.v, y(opcode)) THEN inc_pc(m) ELSE m

\* 6xnn, 7xnn
op_mov_imm(m, opcode) == [m EXCEPT !.v = wr(@, x(opcode), opcode[2])]
op_add_imm(m, opcode) ==
    [m EXCEPT !.v = wr(@, x(opcode), (rd(m.v, x(opcode)) + opcode[2]) % U8)]

\* 8xy0 .. 8xy3
op_mov(m, opcode) == [m EXCEPT !.v = wr(@, x(opcode), rd(m.v, y(opcode)))]
op_or(m, opcode) ==
    [m EXCEPT !.v = wr(@, x(opcode), BitOr(rd(m.v, x(opcode)), rd(m.v, y(opcode))))]
op_and(m, opcode) ==
    [m EXCEPT !.v = wr(@, x(opcode), BitAnd(rd(m.v, x(opcode)), rd(m.v, y(opcode))))]
op_xor(m, opcode) ==
    [m EXCEPT !.v = wr(@, x(opcode), BitXor(rd(m.v, x(opcode)), rd(m.v, y(opcode))))]

\* 8xy4 with a carry that misses the sum 256.
op_addwc_late_carry(m, opcode) ==
    LET sum == rd(m.v, x(opcode)) + rd(m.v, y(opcode))
        val == sum % U8
        carry == IF sum > U8 THEN 1 ELSE 0
    IN  [m EXCEPT !.v = wr(wr(@, x(opcode), val), 15, carry)]

\* 8xy4: overflowing_add, then the two stores in the order of the code.
op_addwc(m, opcode) ==
    LET sum == rd(m.v, x(opcode)) + rd(m.v, y(opcode))
        val == sum % U8
        carry == IF sum >= U8 THEN 1 ELSE 0
    IN  [m EXCEPT !.v = wr(wr(@, x(opcode), val), 15, carry)]

\* 8xy5: overflowing_sub of VX - VY; VF = !borrow.
op_subwc(m, opcode) ==
    LET a == rd(m.v, x(opcode))
        b == rd(m.v, y(opcode))
        val == (a - b + U8) % U8
        borrow == a < b
    IN  [m EXCEPT !.v = wr(wr(@, x(opcode), val), 15, IF borrow THEN 0 ELSE 1)]

\* 8xy6: VF is written first, VX is shifted after.
op_shr(m, opcode) ==
    LET v1 == wr(m.v, 15, BitAnd(rd(m.v, x(opcode)), 1))
    IN  [m EXCEPT !.v = wr(v1, x(opcode), rd(v1, x(opcode)) \div 2)]

\* 8xy7 with VF = borrow in place of VF = !borrow.
op_subwc_rev_flag_is_borrow(m, opcode) ==
    LET a == rd(m.v, x(opcode))
        b == rd(m.v, y(opcode))
        val == (b - a + U8) % U8
        borrow == b < a
    IN  [m EXCEPT !.v = wr(wr(@, x(opcode), val), 15, IF borrow THEN 1 ELSE 0)]

\* 8xy7: overflowing_sub of VY - VX; VF = !borrow.
op_subwc_rev(m, opcode) ==
    LET a == rd(m.v, x(opcode))
        b == rd(m.v, y(opcode))
        val == (b - a + U8) % U8
        borrow == b < a
    IN  [m EXCEPT !.v = wr(wr(@, x(opcode), val), 15, IF borrow THEN 0 ELSE 1)]

\* 8xyE: VF = VX & 0x1 is written first, VX is shifted after.
op_shl(m, opcode) ==
    LET v1 == wr(m.v, 15, BitAnd(rd(m.v, x(opcode)), 1))
    IN  [m EXCEPT !.v = wr(v1, x(opcode), (rd(v1, x(opcode)) * 2) % U8)]

op_alu(m, opcode) ==
    CASE low_nib(opcode[2]) = 0 -> op_mov(m, opcode)
      [] low_nib(opcode[2]) = 1 -> op_or(m, opcode)
      [] low_nib(opcode[2]) = 2 -> op_and(m, opcode)
      [] low_nib(opcode[2]) = 3 -> op_xor(m, opcode)
      [] low_nib(opcode[2]) = 4 -> op_addwc(m, opcode)
      [] low_nib(opcode[2]) = 5 -> op_subwc(m, opcode)
      [] low_nib(opcode[2]) = 6 -> op_shr(m, opcode)
      [] low_nib(opcode[2]) = 7 -> op_subwc_rev(m, opcode)
      [] low_nib(opcode[2]) = 14 -> op_shl(m, opcode)
      [] OTHER -> Panic(m)

\* Annn
op_set_i(m, opcode) == [m EXCEPT !.i = nnn(opcode)]

\* rand_gen and Cxnn
rand_gen(m) == [m EXCEPT !.seed = rand(m.seed)]
op_rnd(m, opcode) ==
    LET m1 == rand_gen(m)
    IN  [m1 EXCEPT !.v = wr(@, x(opcode), BitAnd(LowByte(m1.seed), opcode[2]))]

\* Fx1E
op_add_i(m, opcode) == [m EXCEPT !.i = (@ + rd(m.v, x(opcode))) % U16]

\* The i += x + 1 that ends Fx55 and Fx65.
advance_i(m, opcode, checked) ==
    IF m.i + x(opcode) + 1 >= U16
    THEN Overflow(m, checked, [m EXCEPT !.i = (@ + x(opcode) + 1) % U16])
    ELSE [m EXCEPT !.i = @ + x(opcode) + 1]

\* The writes memory[i + k] = v[k] for k, k + 1, .. last_k, in bounds.
RECURSIVE store_from(_, _, _, _, _)
store_from(mem, regs, base, k, last_k) ==
    IF k > last_k \/ base + k >= MEMORY_SIZE THEN mem
    ELSE store_from(wr(mem, base + k, rd(regs, k)), regs, base, k + 1, last_k)

\* Fx55: for i in 0..x (x excluded), each write bounds checked.
op_store(m, opcode, checked) ==
    LET last_k == x(opcode) - 1
        m1 == [m EXCEPT !.memory = store_from(@, m.v, m.i, 0, last_k)]
    IN  IF last_k >= 0 /\ m.i + last_k >= MEMORY_SIZE
        THEN Panic(m1)
        ELSE advance_i(m1, opcode, checked)

\* The reads v[k] = memory[i + k] for k, k + 1, .. last_k, in bounds.
RECURSIVE load_from(_, _, _, _, _)
load_from(regs, mem, base, k, last_k) ==
    IF k > last_k \/ base + k >= MEMORY_SIZE THEN regs
    ELSE load_from(wr(regs, k, rd(mem, base + k)), mem, base, k + 1, last_k)

\* Fx65 that copies the registers to memory, as Fx55 does.
op_load_as_store(m, opcode, checked) == op_store(m, opcode, checked)

\* Fx65: for i in 0..x (x excluded), each read bounds checked.
op_load(m, opcode, checked) ==
    LET last_k == x(opcode) - 1
        m1 == [m EXCEPT !.v = load_from(@, m.memory, m.i, 0, last_k)]
    IN  IF last_k >= 0 /\ m.i + last_k >= MEMORY_SIZE
        THEN Panic(m1)
        ELSE advance_i(m1, opcode, checked)

\* ------------------------------------------------------------ op_draw
\* The byte of screen memory that holds pixel (cx, cy).
screen_line_idx(cx, cy) == SCREEN_MEMORY_START + cy * 8 + cx \div 8
\* The bit of that byte that is tested: screen_line & (1 << (cx % 8)).
screen_px_of(screen_line, cx) == BitAnd(screen_line, 2 ^ (cx % 8))
\* The write to screen memory with |= in place of ^=.
toggle_px_as_or(screen_line, px) == BitOr(screen_line, px)
\* The write to screen memory: memory[screen_line_idx] ^= px.
toggle_px(screen_line, px) == BitXor(screen_line, px)

\* The test that ends a sprite line one column late.
px_off_screen_late(cx) == cx > SCREEN_WIDTH
\* if cx >= SCREEN_WIDTH as usize { break; }
px_off_screen(cx) == cx >= SCREEN_WIDTH

\* The test that ends the sprite one row late.
row_off_screen_late(cy) == cy > SCREEN_HEIGHT
\* if cy >= SCREEN_HEIGHT as usize { break; }
row_off_screen(cy) == cy >= SCREEN_HEIGHT

\* The loop over the bits bi, bi - 1, .. 0 of one sprite line; a set bit at
\* cx >= SCREEN_WIDTH breaks it.
RECURSIVE draw_bits(_, _, _, _, _)
draw_bits(m, sprite_line, cx, cy, bi) ==
    IF bi < 0 THEN m
    ELSE IF Bit(sprite_line, bi) = 0
         THEN draw_bits(m, sprite_line, cx + 1, cy, bi - 1)
    ELSE IF px_off_screen(cx) THEN m
    ELSE LET idx == screen_line_idx(cx, cy)
             screen_px == screen_px_of(rd(m.memory, idx), cx)
             m1 == IF screen_px # 0 THEN [m EXCEPT !.v = wr(@, 15, 1)] ELSE m
             m2 == [m1 EXCEPT !.memory =
                       wr(@, idx, toggle_px(rd(m.memory, idx), 1))]
             px == BitXor(1, screen_px)
             call == IF px = 0 THEN <<"clear_px", cx, cy>>
                              ELSE <<"draw_px", cx, cy>>
             m3 == [m2 EXCEPT !.screen = Append(@, call)]
         IN  draw_bits(m3, sprite_line, cx + 1, cy, bi - 1)

\* The loop over the sprite lines k, k + 1, .. len - 1; a line at
\* cy >= SCREEN_HEIGHT breaks it.  The address i + k is a u16 sum, and the
\* read of the sprite line is bounds checked.
RECURSIVE draw_rows(_, _, _, _, _, _)
draw_rows(m, vx, vy, len, k, checked) ==
    IF k >= len \/ row_off_screen(vy + k) THEN m
    ELSE LET sum == m.i + k
             addr == sum % U16
         IN  IF sum >= U16 /\ checked THEN Panic(m)
             ELSE IF addr >= MEMORY_SIZE THEN Panic(m)
             ELSE draw_rows(draw_bits(m, rd(m.memory, addr), vx, vy + k, 7),
                            vx, vy, len, k + 1, checked)

op_draw(m, vx, vy, len, checked) ==
    LET r == draw_rows(m, vx, vy, len, 0, checked)
    IN  IF r.status = "panicked" THEN r
        ELSE [r EXCEPT !.screen = Append(@, <<"present">>)]

\* ------------------------------------------------------------ dispatch
dispatch(m, opcode, checked, stdin_ok) ==
    CASE high_nib(opcode[1]) = 0 ->
            IF opcode[2] = 224 THEN op_disp_clear(m)
            ELSE IF opcode[2] = 238 THEN op_ret(m)
            ELSE Panic(m)
      [] high_nib(opcode[1]) = 1 -> op_jump(m, opcode, stdin_ok)
      [] high_nib(opcode[1]) = 2 -> op_call(m, opcode)
      [] high_nib(opcode[1]) = 3 -> op_skip_eq_imm(m, opcode)
      [] high_nib(opcode[1]) = 4 -> op_skip_ne_imm(m, opcode)
      [] high_nib(opcode[1]) = 5 -> op_skip_eq_reg(m, opcode)
      [] high_nib(opcode[1]) = 6 -> op_mov_imm(m, opcode)
      [] high_nib(opcode[1]) = 7 -> op_add_imm(m, opcode)
      [] high_nib(opcode[1]) = 8 -> op_alu(m, opcode)
      [] high_nib(opcode[1]) = 10 -> op_set_i(m, opcode)
      [] high_nib(opcode[1]) = 12 -> op_rnd(m, opcode)
      [] high_nib(opcode[1]) = 13 ->
            op_draw(m, rd(m.v, x(opcode)), rd(m.v, y(opcode)), n(opcode), checked)
      [] high_nib(opcode[1]) = 15 ->
            IF opcode[2] = 30 THEN op_add_i(m, opcode)
            ELSE IF opcode[2] = 85 THEN op_store(m, opcode, checked)
            ELSE IF opcode[2] = 101 THEN op_load(m, opcode, checked)
            ELSE Panic(m)
      [] OTHER -> Panic(m)

\* The second match of emulate_op: every opcode but 1nnn gets inc_pc.
post_dispatch(m, opcode) ==
    IF high_nib(opcode[1]) = 1 THEN m ELSE inc_pc(m)

\* The opcode at pc: the two reads are bounds checked.
CanFetch(m) == m.pc + 1 < MEMORY_SIZE
Fetch(m) == <<rd(m.memory, m.pc), rd(m.memory, m.pc + 1)>>

emulate_op(m, checked, stdin_ok) ==
    IF ~CanFetch(m) THEN Panic(m)
    ELSE LET d == dispatch(m, Fetch(m), checked, stdin_ok)
         IN  IF d.status # "running" THEN d ELSE post_dispatch(d, Fetch(m))

\* ------------------------------------------------------------ programs
\* The roms load_rom is given: instruction words and data bytes.
Ins(a, b, c, d) == <<a * 16 + b, c * 16 + d>>
InsB(h, r, byte) == <<h * 16 + r, byte>>
InsN(h, addr) == <<h * 16 + addr \div 256, addr % 256>>
\* The address of the instruction word number idx of a rom.
At(idx) == MEMORY_START + 2 * idx
\* The jump to itself placed at word idx.
Halt(idx) == InsN(1, At(idx))
RET == <<0, 238>>
CLS == <<0, 224>>

RegSample == {0, 1, 15}
ByteSample == {0, 1, 15, 127, 128, 254, 255}
AluSubs == {0, 1, 2, 3, 4, 5, 6, 7, 8, 14}

AluRoms ==
    { InsB(6, rx, a) \o InsB(6, ry, b) \o Ins(8, rx, ry, k) \o Halt(3) :
        rx \in RegSample, ry \in RegSample, a \in ByteSample,
        b \in ByteSample, k \in AluSubs }

SkipIns(rx, ry, c) == {InsB(3, rx, c), InsB(4, rx, c), Ins(5, rx, ry, 0)}
SkipRoms ==
    UNION { { InsB(6, rx, a) \o InsB(6, ry, b) \o skip \o InsB(6, 2, 9) \o Halt(4) :
                skip \in SkipIns(rx, ry, c) } :
            rx \in RegSample, ry \in RegSample, a \in {0, 1, 255},
            b \in {1, 255}, c \in {0, 1, 255} }

CallRoms ==
    { InsN(2, At(t)) \o InsB(6, 0, 1) \o Halt(2) \o InsB(6, 1, 2)
        \o RET \o RET \o Halt(6) : t \in {3, 4, 5} }
    \cup
    { \* a call inside a called routine
      InsN(2, At(2)) \o Halt(1) \o InsB(6, 0, 1) \o InsN(2, At(5))
        \o RET \o InsB(6, 0, 2) \o RET,
      \* the return address on the stack overwritten by a store block
      InsN(2, At(1)) \o Halt(1) \o InsN(10, STACK_MEMORY_END - 2)
        \o InsB(6, 0, 2) \o InsB(6, 1, 16) \o InsB(15, 2, 85) \o RET
        \o Halt(7) \o Halt(8) \o Halt(9),
      \* a return with no call before it
      InsB(6, 0, 1) \o RET,
      \* a jump
      InsN(1, At(2)) \o InsB(6, 0, 1) \o InsB(6, 0, 2) \o Halt(3),
      InsB(6, 0, 5) \o InsB(7, 0, 3),
      \* a routine that calls itself without end
      InsN(2, At(0)) \o InsN(2, At(0)),
      Halt(0) }

BlockRoms ==
    { InsB(6, 0, a) \o InsB(6, 1, 34) \o InsB(6, 15, 51) \o InsN(10, addr)
        \o InsB(15, rx, 85) \o InsB(6, 0, z) \o InsB(6, 1, z) \o InsB(6, 15, z)
        \o InsN(10, addr) \o InsB(15, rx, 101) \o Halt(10) :
        rx \in {0, 1, 2, 15}, a \in {17, 255}, z \in {0, 68},
        addr \in {768, SCREEN_MEMORY_START, MEMORY_SIZE - 1} }

SpriteSample == {<<128, 128>>, <<255, 129>>, <<1, 0>>}

DrawRoms ==
    { InsB(6, rx, vx0) \o InsB(6, 1, vy) \o InsN(10, At(10))
        \o Ins(13, rx, 1, len) \o InsB(6, rx, vx) \o Ins(13, rx, 1, len)
        \o Ins(13, rx, 1, len) \o CLS \o Ins(13, rx, 1, len) \o Halt(9)
        \o sprite :
        rx \in {0, 15}, vx0 \in {3, 64}, vx \in {0, 3, 60, 64, 255},
        vy \in {0, 31, 32, 255}, len \in 0 .. MaxHeight, sprite \in SpriteSample }

\* The sprite stored into screen memory itself, then drawn from there.
ScreenSpriteRoms ==
    { InsB(6, 0, sprite[1]) \o InsB(6, 1, sprite[2])
        \o InsN(10, SCREEN_MEMORY_START) \o InsB(15, 2, 85)
        \o InsN(10, SCREEN_MEMORY_START) \o InsB(6, 2, vx) \o InsB(6, 3, vy)
        \o Ins(13, 2, 3, len) \o Ins(13, 2, 3, len) \o Halt(9) :
        vx \in {0, 8, 16}, vy \in {0, 1}, len \in 1 .. MaxHeight,
        sprite \in SpriteSample }

MiscRoms ==
    { <<>>, <<0, 0>>, Ins(9, 0, 1, 0), Ins(11, 2, 0, 0), Ins(14, 0, 9, 14),
      InsB(15, 0, 7),
      InsB(12, 0, 255) \o InsB(12, 1, 15) \o InsB(12, 0, 255) \o Halt(3),
      InsN(10, MEMORY_SIZE - 1) \o InsB(6, 0, 255) \o InsB(15, 0, 30)
        \o InsB(15, 0, 30) \o Halt(4),
      InsN(10, MEMORY_SIZE - 1) \o Ins(13, 0, 0, 2) \o Halt(2) }

Roms ==
    AluRoms \cup SkipRoms \cup CallRoms \cup BlockRoms \cup DrawRoms
        \cup ScreenSpriteRoms \cup MiscRoms

\* The seconds of the clock Chip8::new reads.
Seeds == {1, 1762000000}

\* ------------------------------------------------------------ actions
NoSnap ==
    [opcode |-> <<>>, v |-> ZeroMemory, i |-> 0, sp |-> 0, pc |-> 0,
     memory |-> ZeroMemory, calls |-> <<>>]

\* The machine as an instruction finds it.
Snap(opcode) ==
    [opcode |-> opcode, v |-> v, i |-> i, sp |-> sp, pc |-> pc,
     memory |-> memory, calls |-> calls]

\* No line read yet.
NoLine == [line |-> <<>>, before |-> <<>>, steps |-> 0, read |-> FALSE]

Init ==
    /\ v = ZeroMemory
    /\ i = 0
    /\ sp = STACK_MEMORY_END
    /\ pc = MEMORY_START
    /\ memory = ZeroMemory
    /\ used_memory = 0
    /\ seed \in {ToU64(k) : k \in Seeds}
    /\ screen = <<>>
    /\ status = "new"
    /\ steps = 0
    /\ last = NoSnap
    /\ last2 = NoSnap
    /\ stored = [before |-> NoSnap, after |-> NoSnap.memory]
    /\ calls = <<>>
    /\ returns_ahead = FALSE
    /\ db = "off"
    /\ last_cmd = <<>>
    /\ eprinted = <<>>
    /\ nlines = 0
    /\ heard = NoLine
    /\ last_valid = <<>>

\* memory[MEMORY_START ..].copy_from_slice(rom), from byte k on.
RECURSIVE copy_from(_, _, _)
copy_from(mem, rom, k) ==
    IF k > Len(rom) THEN mem
    ELSE copy_from(wr(mem, MEMORY_START + k - 1, rom[k]), rom, k + 1)

\* load_rom, with the bytes of the file: the copy into memory panics when
\* they do not fit.
load_rom(rom) ==
    /\ status = "new"
    /\ IF MEMORY_START + Len(rom) > MEMORY_SIZE
       THEN /\ status' = "panicked"
            /\ UNCHANGED <<memory, used_memory>>
       ELSE /\ memory' = copy_from(memory, rom, 1)
            /\ used_memory' = Len(rom)
            /\ status' = "running"
    /\ UNCHANGED <<v, i, sp, pc, seed, screen, steps, last, last2, stored, calls,
                   returns_ahead, dbvars>>

LoadRom == \E rom \in Roms : load_rom(rom)

IsCall(opcode) == Len(opcode) = 2 /\ high_nib(opcode[1]) = 2
IsRet(opcode) == opcode = RET
IsStore(opcode) == Len(opcode) = 2 /\ high_nib(opcode[1]) = 15 /\ opcode[2] = 85

\* The builds that differ on machine m: an overflow check can only fire on
\* i + k, k <= 16, leaving the u16 range.
Builds(m) == IF m.i + 16 >= U16 THEN BOOLEAN ELSE {TRUE}

\* The jump at pc = nnn, the one instruction that reads standard input.
IsSelfJump(opcode, at) ==
    Len(opcode) = 2 /\ high_nib(opcode[1]) = 1 /\ nnn(opcode) = at
\* What the read of standard input can meet on machine m: a byte (TRUE), or
\* the end of the input (FALSE).
Stdin(m) ==
    IF CanFetch(m) /\ IsSelfJump(Fetch(m), m.pc) THEN BOOLEAN ELSE {TRUE}

\* self.emulate_op(): one instruction, on the machine the variables hold.
EmulateOp ==
    /\ \E checked \in Builds(Machine), stdin_ok \in Stdin(Machine) :
        LET m == [Machine EXCEPT !.screen = <<>>]
            r == emulate_op(m, checked, stdin_ok)
            opcode == IF CanFetch(m) THEN Fetch(m) ELSE <<>>
            ran == r.status = "running"
        IN  /\ v' = r.v
            /\ i' = r.i
            /\ sp' = r.sp
            /\ pc' = r.pc
            /\ memory' = r.memory
            /\ seed' = r.seed
            /\ screen' = r.screen
            /\ status' = r.status
            /\ last' = Snap(opcode)
            /\ last2' = last
            /\ stored' = IF IsStore(opcode) /\ ran
                         THEN [before |-> Snap(opcode), after |-> r.memory]
                         ELSE stored
            /\ calls' = IF IsCall(opcode) /\ ran
                        THEN Append(calls, [p |-> pc, s |-> sp])
                        ELSE IF IsRet(opcode) /\ ran /\ calls # <<>>
                        THEN SubSeq(calls, 1, Len(calls) - 1)
                        ELSE calls
            /\ returns_ahead' = (returns_ahead \/ (IsRet(opcode) /\ ran /\ calls = <<>>))
    /\ steps' = steps + 1
    /\ UNCHANGED used_memory

\* One pass of the loop of emulate: emulate_op on the machine.
Emulate ==
    /\ status = "running"
    /\ steps < MaxSteps
    /\ EmulateOp
    /\ UNCHANGED dbvars

Next == LoadRom \/ Emulate

Spec == Init /\ [][Next]_vars

\* ------------------------------------------------------------ debugger
\* str::trim_end: the line without its trailing white space.
Whitespace == {" ", "\t", "\n", "\r"}
RECURSIVE trim_end(_)
trim_end(buffer) ==
    IF buffer # <<>> /\ buffer[Len(buffer)] \in Whitespace
    THEN trim_end(SubSeq(buffer, 1, Len(buffer) - 1))
    ELSE buffer

\* The lines standard input can hold, as read_line returns them; the empty
\* one is the end of the input.
Lines ==
    { <<"n", "\n">>, <<"r", "\n">>, <<"q", "\n">>, <<"\n">>, <<"x", "\n">>,
      <<"n", " ", "\n">>, <<>> }

\* The programs the debugger is run on.
DebugRoms ==
    { InsB(6, 0, 1) \o InsB(7, 0, 1) \o InsB(7, 0, 2) \o Halt(3),
      InsB(6, 0, 1) \o Ins(9, 0, 1, 0) }

LoadDebugRom == \E rom \in DebugRoms : load_rom(rom)

\* The machine but the count of its instructions, and the ghosts.
machine_vars ==
    <<v, i, sp, pc, memory, used_memory, seed, screen, status, last, last2,
      stored, calls, returns_ahead>>

\* debugger, up to its loop: the loaded machine, an empty last_cmd.
debugger ==
    /\ status = "running"
    /\ db = "off"
    /\ db' = "prompt"
    /\ last_cmd' = <<>>
    /\ UNCHANGED <<machine_vars, steps, eprinted, nlines, heard, last_valid>>

\* One pass of the loop of debugger that reads the line: an empty command
\* is replaced by last_cmd, any other becomes last_cmd; then the match.
debugger_line(line) ==
    /\ status = "running"
    /\ db = "prompt"
    /\ nlines < MaxLines
    /\ LET buffer == trim_end(line)
           cmd == IF buffer = <<>> THEN last_cmd ELSE buffer
       IN  /\ last_cmd' = IF buffer = <<>> THEN last_cmd ELSE buffer
           /\ CASE cmd = <<"n">> ->
                       EmulateOp /\ db' = "prompt" /\ eprinted' = <<>>
                [] cmd = <<"r">> ->
                       db' = "run" /\ eprinted' = <<>>
                           /\ UNCHANGED <<machine_vars, steps>>
                [] cmd = <<"q">> ->
                       db' = "quit" /\ eprinted' = <<>>
                           /\ UNCHANGED <<machine_vars, steps>>
                [] OTHER ->
                       db' = "prompt" /\ eprinted' = <<cmd>>
                           /\ UNCHANGED <<machine_vars, steps>>
           /\ heard' = [line |-> buffer, before |-> last_valid,
                        steps |-> steps, read |-> TRUE]
           /\ last_valid' = IF buffer \in {<<"n">>, <<"r">>, <<"q">>}
                            THEN buffer ELSE last_valid
    /\ nlines' = nlines + 1

DebuggerLine == \E line \in Lines : debugger_line(line)

\* One pass of the loop of the command "r", which never ends.
debugger_run ==
    /\ status = "running"
    /\ db = "run"
    /\ steps < MaxSteps
    /\ EmulateOp
    /\ UNCHANGED dbvars

NextDebugger == LoadDebugRom \/ debugger \/ DebuggerLine \/ debugger_run

SpecDebugger == Init /\ [][NextDebugger]_vars

\* ------------------------------------------------------------ properties
ScreenMemory == SCREEN_MEMORY_START .. MEMORY_SIZE - 1
\* The last instruction ran to its end: no panic, no exit.
Ran == status = "running" /\ Len(last.opcode) = 2
LastHigh == high_nib(last.opcode[1])
LastX == x(last.opcode)
LastY == y(last.opcode)
LastIsRet == Ran /\ IsRet(last.opcode)
LastIsCall == Ran /\ IsCall(last.opcode)
LastIsJump == Ran /\ LastHigh = 1
LastIsStore == Ran /\ IsStore(last.opcode)
LastIsLoad == Ran /\ LastHigh = 15 /\ last.opcode[2] = 101
LastIsAlu(k) == Ran /\ LastHigh = 8 /\ low_nib(last.opcode[2]) = k
LastIsDraw == Ran /\ LastHigh = 13
LastIsClear == Ran /\ last.opcode = CLS
LastIsSkip ==
    Ran /\ (LastHigh \in {3, 4} \/ (LastHigh = 5 /\ low_nib(last.opcode[2]) = 0))
\* The condition of the skip instruction that ran last.
SkipCondition ==
    CASE LastHigh = 3 -> rd(last.v, LastX) = last.opcode[2]
      [] LastHigh = 4 -> rd(last.v, LastX) # last.opcode[2]
      [] OTHER -> rd(last.v, LastX) = rd(last.v, LastY)

\* The call a return that ran last returns from, its stack bytes intact.
TopCall == last.calls[Len(last.calls)]
ReturnsFromCall ==
    /\ LastIsRet
    /\ last.calls # <<>>
    /\ last.sp = TopCall.s - 2
    /\ rd(last.memory, last.sp) = (TopCall.p + 2) \div 256
    /\ rd(last.memory, last.sp + 1) = (TopCall.p + 2) % 256

\* C1: a Call at p with the stack pointer at s, and later the Return from
\* it with the pushed bytes intact, leave pc = p + 2 and sp = s.
CallReturnRoundTrip ==
    ReturnsFromCall => pc = TopCall.p + 2 /\ sp = TopCall.s

\* C2: after one emulate_op a Jump or a Call leaves pc = nnn, a Return
\* leaves pc = the big-endian address popped from the stack, and every other
\* instruction leaves pc = old pc + 2, or + 4 for a taken skip.
PostDispatchRule ==
    Ran =>
        IF LastIsJump \/ LastIsCall THEN pc = nnn(last.opcode)
        ELSE IF LastIsRet
             THEN pc = rd(last.memory, last.sp) * 256 + rd(last.memory, last.sp + 1)
        ELSE IF LastIsSkip /\ SkipCondition THEN pc = last.pc + 4
        ELSE pc = last.pc + 2

\* A load block that ran last, through the address and the register range
\* of the store block before it, the stored bytes intact.
LoadsBackStore ==
    /\ LastIsLoad
    /\ IsStore(stored.before.opcode)
    /\ x(stored.before.opcode) = LastX
    /\ stored.before.i = last.i
    /\ last.i + LastX < MEMORY_SIZE
    /\ \A k \in 0 .. LastX :
          rd(last.memory, last.i + k) = rd(stored.after, last.i + k)

\* C3: Store block at address A, then any change of V0..Vx, then Load block
\* at A, restores every register V0..Vx to its value before the store; each
\* of the two instructions advances the address register by x + 1.
BlockRoundTrip ==
    /\ LoadsBackStore => \A r \in 0 .. LastX : rd(v, r) = rd(stored.before.v, r)
    /\ LastIsStore \/ LastIsLoad => i = last.i + LastX + 1

\* C4: Store block writes register k to memory[I + k] for every k from 0
\* to x inclusive and then advances I by x + 1; Load block reads the same
\* inclusive range.
BlockInclusive ==
    /\ LastIsStore /\ last.i + LastX < MEMORY_SIZE =>
          /\ \A k \in 0 .. LastX : rd(memory, last.i + k) = rd(last.v, k)
          /\ i = last.i + LastX + 1
    /\ LastIsLoad /\ last.i + LastX < MEMORY_SIZE =>
          /\ \A k \in 0 .. LastX : rd(v, k) = rd(last.memory, last.i + k)
          /\ i = last.i + LastX + 1

\* C5: with x # 15 and a the old VX, shift-right leaves VX = a >> 1 and
\* VF = bit 0 of a; shift-left leaves VX = (a << 1) mod 256 and VF = bit 7
\* of a.
ShiftFlag ==
    /\ LastIsAlu(6) /\ LastX # 15 =>
          rd(v, LastX) = rd(last.v, LastX) \div 2 /\ rd(v, 15) = rd(last.v, LastX) % 2
    /\ LastIsAlu(14) /\ LastX # 15 =>
          rd(v, LastX) = (rd(last.v, LastX) * 2) % 256 /\ rd(v, 15) = rd(last.v, LastX) \div 128

\* C6: Clear display leaves every byte of screen memory zero and calls
\* clear() and then present(); a sprite drawn right after it reports no
\* collision.
ClearDisplay ==
    /\ LastIsClear =>
          /\ \A a \in ScreenMemory : rd(memory, a) = 0
          /\ screen = <<<<"clear">>, <<"present">>>>
    /\ LastIsDraw /\ last2.opcode = CLS /\ rd(last.v, 15) = 0 => rd(v, 15) = 0

\* The last two instructions are the same Draw sprite, run at the same
\* coordinates, with the same address register and the same sprite bytes.
DrawnTwice ==
    /\ LastIsDraw
    /\ last2.opcode = last.opcode
    /\ last2.i = last.i
    /\ rd(last2.v, LastX) = rd(last.v, LastX)
    /\ rd(last2.v, LastY) = rd(last.v, LastY)
    /\ \A k \in 0 .. n(last.opcode) - 1 :
          last.i + k < MEMORY_SIZE =>
              rd(last2.memory, last.i + k) = rd(last.memory, last.i + k)

\* C7: the same Draw sprite executed twice in a row, with the coordinates,
\* the address register and the sprite bytes unchanged, leaves every byte of
\* screen memory as it was before the first draw.
DrawTwiceRestores ==
    DrawnTwice => \A a \in ScreenMemory : rd(memory, a) = rd(last2.memory, a)

\* The first draw started on screen memory that was not blank and changed it.
DrawTwiceRestoresWitness ==
    /\ DrawnTwice
    /\ \E a \in ScreenMemory : rd(last2.memory, a) # 0
    /\ \E a \in ScreenMemory : rd(last.memory, a) # rd(last2.memory, a)
    /\ n(last.opcode) = 2

\* The sprite of the last draw has a set bit that falls on the screen.
SpriteOnScreen ==
    \E k \in 0 .. n(last.opcode) - 1 : \E b \in 0 .. 7 :
        /\ rd(last.v, LastY) + k < SCREEN_HEIGHT
        /\ rd(last.v, LastX) + (7 - b) < SCREEN_WIDTH
        /\ last.i + k < MEMORY_SIZE
        /\ Bit(rd(last2.memory, last.i + k), b) = 1

\* C8: from blank screen memory, a Draw sprite that sets a pixel on the
\* screen and is then repeated leaves VF = 1.
CollisionOnRedraw ==
    /\ DrawnTwice
    /\ \A a \in ScreenMemory : rd(last2.memory, a) = 0
    /\ SpriteOnScreen
    => rd(v, 15) = 1

\* C9: a skip instruction advances pc by 4 when its condition holds and by
\* 2 when it does not, and changes no register, nor the address register,
\* the stack pointer or memory.
SkipAdvance ==
    LastIsSkip =>
        /\ pc = last.pc + (IF SkipCondition THEN 4 ELSE 2)
        /\ v = last.v
        /\ i = last.i
        /\ sp = last.sp
        /\ memory = last.memory

\* A skip-if-not-equal that was taken.
SkipAdvanceWitness ==
    LastIsSkip /\ LastHigh = 4 /\ SkipCondition /\ pc = last.pc + 4

\* C10: with x # 15, a the old VX and b the old VY, add-with-carry leaves
\* VX = (a + b) mod 256 and VF = 1 if a + b >= 256, else 0.
AddWithCarry ==
    LastIsAlu(4) /\ LastX # 15 =>
        /\ rd(v, LastX) = (rd(last.v, LastX) + rd(last.v, LastY)) % 256
        /\ rd(v, 15) = IF rd(last.v, LastX) + rd(last.v, LastY) >= 256 THEN 1 ELSE 0

\* An addition that carried out of distinct registers.
AddWithCarryWitness ==
    /\ LastIsAlu(4)
    /\ LastX # 15
    /\ LastX # LastY
    /\ rd(last.v, LastX) + rd(last.v, LastY) >= 256
    /\ rd(v, 15) = 1

\* C11: with x # 15, a the old VX and b the old VY, subtract (8xy5) leaves
\* VX = (a - b) mod 256 and VF = 0 if a < b, else 1; reverse subtract (8xy7)
\* leaves VX = (b - a) mod 256 and VF = 0 if b < a, else 1.
InvertedBorrow ==
    /\ LastIsAlu(5) /\ LastX # 15 =>
          /\ rd(v, LastX) = (rd(last.v, LastX) - rd(last.v, LastY)) % 256
          /\ rd(v, 15) = IF rd(last.v, LastX) < rd(last.v, LastY) THEN 0 ELSE 1
    /\ LastIsAlu(7) /\ LastX # 15 =>
          /\ rd(v, LastX) = (rd(last.v, LastY) - rd(last.v, LastX)) % 256
          /\ rd(v, 15) = IF rd(last.v, LastY) < rd(last.v, LastX) THEN 0 ELSE 1

\* A reverse subtraction that borrowed, out of distinct registers.
InvertedBorrowWitness ==
    /\ LastIsAlu(7)
    /\ LastX # 15
    /\ LastX # LastY
    /\ rd(last.v, LastY) < rd(last.v, LastX)
    /\ rd(v, LastX) = rd(last.v, LastY) + 256 - rd(last.v, LastX)
    /\ rd(v, 15) = 0

\* The last instruction fetched was a Draw sprite, whatever became of it.
LastWasDraw == Len(last.opcode) = 2 /\ LastHigh = 13
\* The positions in the log of the screen of the calls of one method.
ScreenCalls(method) == {k \in 1 .. Len(screen) : screen[k][1] = method}

SelfJumped == IsSelfJump(last.opcode, last.pc)
\* The last instruction fetched was a jump to another address.
JumpedAway ==
    Len(last.opcode) = 2 /\ LastHigh = 1 /\ nnn(last.opcode) # last.pc
\* What an instruction can change of the machine, and the count of the
\* instructions executed.
MachineState == <<v, i, sp, pc, memory, seed, status, steps>>

\* C13: a Jump to its own address ends the run: it leaves pc, the registers
\* and memory as they were, the machine is no longer running, and no step
\* after it executes an instruction or changes the machine; a Jump to any
\* other address leaves the machine running at that address.
SelfJumpHalt ==
    [][/\ SelfJumped' =>
            /\ status' \in {"exited", "panicked"}
            /\ <<v, i, sp, pc, memory>>' = <<v, i, sp, pc, memory>>
       /\ SelfJumped => UNCHANGED MachineState
       /\ JumpedAway' => status' = "running" /\ pc' = nnn(last.opcode')]_vars

\* The run ended on a jump to itself that other instructions led to.
SelfJumpHaltWitness ==
    SelfJumped /\ status = "exited" /\ steps >= 3 /\ pc = last.pc

\* The last instruction fetched is none of the instructions of the machine.
LastUnimplemented ==
    /\ Len(last.opcode) = 2
    /\ \/ LastHigh \in {9, 11, 14}
       \/ LastHigh = 0 /\ last.opcode[2] \notin {224, 238}
       \/ LastHigh = 8 /\ low_nib(last.opcode[2]) \notin (0 .. 7) \cup {14}
       \/ LastHigh = 15 /\ last.opcode[2] \notin {30, 85, 101}

\* C14: an opcode outside the instruction set ends the run in a panic: pc
\* is not advanced, no register and no byte of memory is changed, and no
\* step after it executes an instruction or changes the machine.
UnimplementedFatal ==
    [][/\ LastUnimplemented' =>
            /\ status' = "panicked"
            /\ <<v, i, sp, pc, memory, seed>>' = <<v, i, sp, pc, memory, seed>>
       /\ LastUnimplemented => UNCHANGED MachineState]_vars

\* The run ended on 8xy8, after instructions that set registers.
UnimplementedFatalWitness ==
    /\ LastUnimplemented
    /\ LastHigh = 8
    /\ status = "panicked"
    /\ steps >= 3
    /\ pc = last.pc
    /\ rd(v, LastX) # 0

\* The command the last line read stands for: the line itself, or for a
\* blank line the last command among the lines before it.
Meant == IF heard.line = <<>> THEN heard.before ELSE heard.line

\* C15: in the debugger a blank line repeats the last of 'n', 'r', 'q'
\* entered before it, whatever unknown lines came in between; an unknown
\* line is reported, executes no instruction and leaves the debugger at its
\* prompt; 'q' ends the loop; 'n' executes exactly one instruction.
DebuggerCommands ==
    heard.read /\ Meant # <<>> =>
        CASE Meant = <<"n">> -> steps = heard.steps + 1 /\ eprinted = <<>>
          [] Meant = <<"q">> -> db = "quit" /\ steps = heard.steps
          [] Meant = <<"r">> -> db = "run"
          [] OTHER -> /\ eprinted = <<Meant>>
                      /\ steps = heard.steps
                      /\ db = "prompt"

\* Pixel (cx, cy) is one the sprite of the last draw sets: bit 7 - k of the
\* sprite line r, with cx = VX + k and cy = VY + r.
SpritePixel(cx, cy) ==
    \E r \in 0 .. n(last.opcode) - 1 : \E k \in 0 .. 7 :
        /\ rd(last.v, LastX) + k = cx
        /\ rd(last.v, LastY) + r = cy
        /\ Bit(rd(last.memory, last.i + r), 7 - k) = 1
\* The byte of screen memory at a with the bit cx mod 8 set for each of its
\* eight pixels that the sprite of the last draw sets.
PixelByte(a) ==
    LET cy == (a - SCREEN_MEMORY_START) \div 8
        bx == ((a - SCREEN_MEMORY_START) % 8) * 8
        P(c) == IF SpritePixel(bx + c, cy) THEN 2 ^ c ELSE 0
    IN  P(0) + P(1) + P(2) + P(3) + P(4) + P(5) + P(6) + P(7)

\* C16: a Draw sprite on blank screen memory leaves set exactly the bits of
\* the pixels of the sprite that are on the screen, pixel (cx, cy) being
\* bit cx mod 8 of the byte 0xF00 + cy * 8 + cx / 8.
PixelBitMapping ==
    LastIsDraw /\ (\A a \in ScreenMemory : rd(last.memory, a) = 0) =>
        \A a \in ScreenMemory : rd(memory, a) = PixelByte(a)

\* The last draw took its coordinates from registers other than VF and
\* processed a sprite line, its sprite lay outside screen memory, and none
\* of the pixels it set on the screen was set before.
DrewWithoutCollision ==
    /\ LastIsDraw
    /\ LastX # 15 /\ LastY # 15
    /\ n(last.opcode) >= 1
    /\ rd(last.v, LastY) < SCREEN_HEIGHT
    /\ last.i + n(last.opcode) <= SCREEN_MEMORY_START
    /\ \A cx \in 0 .. SCREEN_WIDTH - 1 : \A cy \in 0 .. SCREEN_HEIGHT - 1 :
          SpritePixel(cx, cy) =>
              Bit(rd(last.memory, screen_line_idx(cx, cy)), cx % 8) = 0

\* C17: a Draw sprite that processes at least one sprite line and finds
\* none of its pixels already set leaves VF = 0, whatever VF was before.
CollisionFlagReset ==
    DrewWithoutCollision => rd(v, 15) = 0

\* Pixel (cx, cy) lies on the screen and in the rectangle of the sprite of
\* the last draw: 8 columns from VX, n rows from VY.
InSpriteBox(cx, cy) ==
    /\ cx \in 0 .. SCREEN_WIDTH - 1
    /\ cy \in 0 .. SCREEN_HEIGHT - 1
    /\ cx \in rd(last.v, LastX) .. rd(last.v, LastX) + 7
    /\ cy \in rd(last.v, LastY) .. rd(last.v, LastY) + n(last.opcode) - 1
\* The calls of draw_px and clear_px in the log of the screen.
PixelCalls == ScreenCalls("draw_px") \cup ScreenCalls("clear_px")

\* C18: a Draw sprite changes no byte of memory outside screen memory
\* 0xF00..0xFFF, calls draw_px and clear_px only for pixels of the screen
\* that lie in the rectangle of the sprite, and changes a byte of screen
\* memory only if the byte holds such a pixel: nothing is wrapped to the
\* other edge or to the next row.
DrawClipped ==
    LastWasDraw =>
        /\ \A a \in (DOMAIN memory \cup DOMAIN last.memory) \ ScreenMemory :
              rd(memory, a) = rd(last.memory, a)
        /\ \A k \in PixelCalls : InSpriteBox(screen[k][2], screen[k][3])
        /\ \A a \in ScreenMemory :
              rd(memory, a) # rd(last.memory, a) =>
                  \E c \in 0 .. 7 :
                      InSpriteBox(((a - SCREEN_MEMORY_START) % 8) * 8 + c,
                                  (a - SCREEN_MEMORY_START) \div 8)

\* A sprite of two full rows drawn at (60, 31): four pixels reach the
\* screen, the other twelve are clipped.
DrawClippedWitness ==
    /\ LastIsDraw
    /\ rd(last.v, LastX) = 60
    /\ rd(last.v, LastY) = 31
    /\ n(last.opcode) = 2
    /\ rd(last.memory, last.i) = 255
    /\ rd(last.memory, last.i + 1) # 0
    /\ Cardinality(PixelCalls) = 4

\* C19: as long as no Return has run without a Call to return from and no
\* more than 48 calls are open, sp = 0xF00 - 2 * (the calls open), which
\* lies in 0xEA0..0xF00, and a Call has written its return address pc + 2,
\* high byte first, at the new sp and sp + 1, inside 0xEA0..0xEFF, and
\* nowhere else.
StackPointerInvariant ==
    ~returns_ahead /\ Len(calls) <= 48 =>
        /\ sp = 3840 - 2 * Len(calls)
        /\ sp \in 3744 .. 3840
        /\ LastIsCall =>
              /\ sp = last.sp - 2
              /\ {sp, sp + 1} \subseteq 3744 .. 3839
              /\ rd(memory, sp) = (last.pc + 2) \div 256
              /\ rd(memory, sp + 1) = (last.pc + 2) % 256
              /\ \A a \in (DOMAIN memory \cup DOMAIN last.memory) \ {sp, sp + 1} :
                    rd(memory, a) = rd(last.memory, a)

\* The 48th call open at once: sp has come down to 0xEA0.
StackPointerInvariantWitness ==
    /\ LastIsCall
    /\ ~returns_ahead
    /\ Len(calls) = 48
    /\ sp = 3744
    /\ rd(memory, sp) * 256 + rd(memory, sp + 1) = last.pc + 2

\* The last instruction ran to its end and was a Random AND.
LastIsRnd == Ran /\ LastHigh = 12
\* Bit b of w ^ (w << k) on 64 bits is bit b of w xor bit b - k of w, and
\* bit b of w ^ (w >> k) is bit b of w xor bit b + k of w.
XorShiftedLeft(w, k) == {b \in 0 .. 63 : (b \in w) # (b - k \in w)}
XorShiftedRight(w, k) == {b \in 0 .. 63 : (b \in w) # (b + k \in w)}
Xorshift64(w) == XorShiftedLeft(XorShiftedRight(XorShiftedLeft(w, 13), 7), 17)

\* C20: a Random AND steps the generator once, seed' = xorshift(seed) with
\* the shifts << 13, >> 7, << 17 on 64 bits, and leaves VX = (the low byte
\* of seed') AND nn, with no bit outside nn; every other step leaves the
\* generator as it was.
RandomAnd ==
    [][IF LastIsRnd'
       THEN /\ seed' = Xorshift64(seed)
            /\ rd(v', LastX') = BitAnd(LowByte(seed'), last.opcode'[2])
            /\ BitAnd(rd(v', LastX'), last.opcode'[2]) = rd(v', LastX')
       ELSE seed' = seed]_vars

\* The third Random AND in a row: the generator has bits above bit 47 set
\* and the register is not zero.
RandomAndWitness ==
    /\ LastIsRnd
    /\ last2.opcode # <<>> /\ high_nib(last2.opcode[1]) = 12
    /\ steps = 3
    /\ \E b \in seed : b > 47
    /\ rd(v, LastX) # 0

\* The addresses whose byte the last instruction changed.
ChangedBytes ==
    {a \in DOMAIN memory \cup DOMAIN last.memory :
        rd(memory, a) # rd(last.memory, a)}

\* C21: the last instruction fetched, however it ended, changed memory only
\* where it may: a Call its two stack bytes below the old sp, a Store block
\* bytes from the old i to i + x, a Draw sprite and a Clear display bytes
\* of screen memory, any other instruction none; and a Draw sprite left i
\* and V0..V14 as they were.
MemoryFrame ==
    Len(last.opcode) = 2 =>
        /\ CASE IsCall(last.opcode) ->
                    ChangedBytes \subseteq {last.sp - 2, last.sp - 1}
              [] IsStore(last.opcode) ->
                    ChangedBytes \subseteq last.i .. last.i + LastX
              [] LastHigh = 13 \/ last.opcode = CLS ->
                    ChangedBytes \subseteq ScreenMemory
              [] OTHER -> ChangedBytes = {}
        /\ LastHigh = 13 =>
              i = last.i /\ \A r \in 0 .. 14 : rd(v, r) = rd(last.v, r)

\* A Draw sprite that changed screen memory and VF, drawn from registers
\* that are not zero.
MemoryFrameWitness ==
    /\ LastIsDraw
    /\ ChangedBytes # {}
    /\ rd(v, 15) # rd(last.v, 15)
    /\ rd(v, LastX) # 0
    /\ i # 0

\* The last instruction ran to its end and was one of the ALU family that
\* produces a flag: 8xy4, 8xy5, 8xy6, 8xy7 or 8xyE.
LastIsFlagAlu ==
    Ran /\ LastHigh = 8 /\ low_nib(last.opcode[2]) \in {4, 5, 6, 7, 14}
\* The flag of that instruction, from the operands it found: a the old VX,
\* b the old VY.
FlagOf(k, a, b) ==
    CASE k = 4 -> IF a + b >= 256 THEN 1 ELSE 0
      [] k = 5 -> IF a < b THEN 0 ELSE 1
      [] k = 6 -> a % 2
      [] k = 7 -> IF b < a THEN 0 ELSE 1
      [] OTHER -> a \div 128

\* C22: a flag-producing ALU instruction with x = 15 leaves in VF the flag
\* of the operation, computed from the operands it found, not the result
\* of the arithmetic or of the shift; and after any flag-producing ALU
\* instruction VF is 0 or 1.
FlagWriteWins ==
    LastIsFlagAlu =>
        /\ LastX = 15 =>
              rd(v, 15) = FlagOf(low_nib(last.opcode[2]),
                                 rd(last.v, 15), rd(last.v, LastY))
        /\ rd(v, 15) \in {0, 1}
====
